---- MODULE Spec2Model ----
(***************************************************************************)
(* csim.c - a cache simulator that replays a Valgrind trace against a      *)
(* set-associative cache with S = 2^s sets of E lines and counts hits,     *)
(* misses and evictions.  The model follows main, initCache, replayTrace,  *)
(* accessData and freeCache of src/csim.c.                                 *)
(***************************************************************************)
EXTENDS Integers, Sequences, FiniteSets, TLC

(* ------------------------------ bounds -------------------------------- *)

\* largest value given to -s, -E, -b on the command line
MaxArg == 2
\* largest address that occurs in the explored part of the trace
MaxAddr == 10
\* number of accessData calls explored after the repeated prefix
MaxCalls == 4

(* ------------------------- program constants -------------------------- *)

\* int min = 5000;  the start value of the minimum scan
MinSentinel == 5000
\* int max = 0;  the start value of the maximum scan
MaxSentinel == 0

\* values atoi can deliver for an option; 0 is also the value of a global
\* whose option is missing from the command line
ArgValues == (0 - 1) .. MaxArg
Addresses == 0 .. MaxAddr
\* the trace starts with PrefixLen loads of PrefixAddr or with none
PrefixAddr == 2
PrefixLens == {0, MinSentinel}
\* the addresses of Scenario 1 (geometry s = 1, E = 1, b = 1)
Scenario1 == << 0, 0, 4 >>

VARIABLES
  pc,              \* position of the process in main
  s, E, b,         \* globals set by the command line arguments
  trace_file,      \* TRUE when -t was given (trace_file != NULL)
  S,               \* number of sets, set by initCache
  cache,           \* cache[i][j] : the line j of the set i
  initI,           \* the loop variable i of initCache
  allocFailed,     \* some malloc of initCache returned NULL
  heapCorrupt,     \* a store through cache[targSet][-1] has happened
  hit_count, miss_count, eviction_count,
  targSet, targTag,\* the locals of the latest accessData call
  minIndex,        \* the local minIndex of the latest accessData call
  inits, frees,    \* number of initCache and of freeCache calls made so far
  prefixLen,       \* length of the repeated prefix of the trace
  calls,           \* number of accessData calls made so far
  singles,         \* number of L and S lines replayed so far
  modifies,        \* number of M lines whose first access has been made
  addr,            \* the local addr of replayTrace: the address of the line
  matched,         \* how many calls of Scenario1 the calls so far are, or -1
  ref              \* the reference LRU model run side by side

vars == << pc, s, E, b, trace_file, S, cache, initI, allocFailed, heapCorrupt,
           hit_count, miss_count, eviction_count, targSet, targTag, minIndex,
           prefixLen, calls, singles, modifies, addr, matched, ref,
           inits, frees >>

(* ------------------------- integer arithmetic ------------------------- *)

\* pow(2, n) for n >= 0
RECURSIVE Pow2(_)
Pow2(n) == IF n <= 0 THEN 1 ELSE 2 * Pow2(n - 1)

\* (int) pow(2, n): a negative exponent gives a fraction, truncated to 0
Pow2Int(n) == IF n < 0 THEN 0 ELSE Pow2(n)

\* x & y on non-negative integers
RECURSIVE BitAnd(_, _)
BitAnd(x, y) ==
  IF x = 0 \/ y = 0 THEN 0
  ELSE (IF x % 2 = 1 /\ y % 2 = 1 THEN 1 ELSE 0) + 2 * BitAnd(x \div 2, y \div 2)

\* x >> n
ShiftRight(x, n) == x \div Pow2(n)

ValidGeometry == s >= 1 /\ E >= 1 /\ b >= 1

(* --------------------------- accessData ------------------------------- *)

\* mask = pow(2, s + b); mask--; mask -= (pow(2, b) - 1);
MaskOffByOne == (Pow2(s + b) - 1) - Pow2(b)
Mask == (Pow2(s + b) - 1) - (Pow2(b) - 1)

\* targSet = addr & mask; targSet = targSet >> b;
SetOfLowBits(a) == BitAnd(a, Pow2(s) - 1)
SetOf(a) == ShiftRight(BitAnd(a, Mask), b)

\* targTag = addr >> (s + b);
TagOfShiftedOneMore(a) == ShiftRight(a, s + b + 1)
TagOf(a) == ShiftRight(a, s + b)

\* the first loop: minimum and maximum counter of the set and the index of
\* the minimum, scanning j = 0 .. E-1 with strict comparisons
RECURSIVE ScanFromLastMin(_, _, _)
ScanFromLastMin(set, j, acc) ==
  IF j >= E THEN acc
  ELSE LET c == set[j].counter
           lower == c <= acc.min
       IN ScanFromLastMin(set, j + 1,
             [min      |-> IF lower THEN c ELSE acc.min,
              minIndex |-> IF lower THEN j ELSE acc.minIndex,
              max      |-> IF c > acc.max THEN c ELSE acc.max])
RECURSIVE ScanFrom(_, _, _)
ScanFrom(set, j, acc) ==
  IF j >= E THEN acc
  ELSE LET c == set[j].counter
           lower == c < acc.min
       IN ScanFrom(set, j + 1,
             [min      |-> IF lower THEN c ELSE acc.min,
              minIndex |-> IF lower THEN j ELSE acc.minIndex,
              max      |-> IF c > acc.max THEN c ELSE acc.max])

Scan(set) ==
  ScanFrom(set, 0, [min |-> MinSentinel, minIndex |-> 0 - 1, max |-> MaxSentinel])

\* the second loop: the first line that is valid and holds the tag, or -1
RECURSIVE FindLineFrom(_, _, _)
FindLineFrom(set, tag, i) ==
  IF i >= E THEN 0 - 1
  ELSE IF set[i].valid /\ set[i].tag = tag THEN i
  ELSE FindLineFrom(set, tag, i + 1)

FindLineSkipFirst(set, tag) == FindLineFrom(set, tag, 1)
FindLine(set, tag) == FindLineFrom(set, tag, 0)

\* the third loop: the first line that is not valid, or -1
RECURSIVE FindEmptyFrom(_, _)
FindEmptyFrom(set, k) ==
  IF k >= E THEN 0 - 1
  ELSE IF ~ set[k].valid THEN k
  ELSE FindEmptyFrom(set, k + 1)

RECURSIVE FindEmptyDownFrom(_, _)
FindEmptyDownFrom(set, k) ==
  IF k < 0 THEN 0 - 1
  ELSE IF ~ set[k].valid THEN k
  ELSE FindEmptyDownFrom(set, k - 1)

FindEmptyLast(set) == FindEmptyDownFrom(set, E - 1)
FindEmpty(set) == FindEmptyFrom(set, 0)

\* found: hit_count++ and the line becomes the most recent one
HitNotCounted(c, t, i, max) ==
  [cache |-> [c EXCEPT ![t][i].counter = max + 1],
   hit |-> 0, miss |-> 0, evict |-> 0, wild |-> FALSE]
HitCountsEviction(c, t, i, max) ==
  [cache |-> [c EXCEPT ![t][i].counter = max + 1],
   hit |-> 1, miss |-> 0, evict |-> 1, wild |-> FALSE]
OnHit(c, t, i, max) ==
  [cache |-> [c EXCEPT ![t][i].counter = max + 1],
   hit |-> 1, miss |-> 0, evict |-> 0, wild |-> FALSE]

\* not found, an empty line k exists: miss_count++ and the line is filled
OnColdValidNotSet(c, t, k, tag, max) ==
  [cache |-> [c EXCEPT ![t][k] = [valid |-> FALSE, tag |-> tag, counter |-> max + 1]],
   hit |-> 0, miss |-> 1, evict |-> 0, wild |-> FALSE]
OnCold(c, t, k, tag, max) ==
  [cache |-> [c EXCEPT ![t][k] = [valid |-> TRUE, tag |-> tag, counter |-> max + 1]],
   hit |-> 0, miss |-> 1, evict |-> 0, wild |-> FALSE]

\* not found, no empty line: miss_count++, eviction_count++ and the line
\* victim = minIndex is overwritten; with minIndex = -1 the two stores go through
\* cache[targSet][-1], outside the array of the set
OnEvictNotCounted(c, t, victim, tag, max) ==
  IF victim \in DOMAIN c[t]
  THEN [cache |-> [c EXCEPT ![t][victim].tag = tag,
                            ![t][victim].counter = max + 1],
        hit |-> 0, miss |-> 1, evict |-> 0, wild |-> FALSE]
  ELSE [cache |-> c, hit |-> 0, miss |-> 1, evict |-> 0, wild |-> TRUE]
OnEvict(c, t, victim, tag, max) ==
  IF victim \in DOMAIN c[t]
  THEN [cache |-> [c EXCEPT ![t][victim].tag = tag,
                            ![t][victim].counter = max + 1],
        hit |-> 0, miss |-> 1, evict |-> 1, wild |-> FALSE]
  ELSE [cache |-> c, hit |-> 0, miss |-> 1, evict |-> 1, wild |-> TRUE]

\* the whole of accessData on a cache c whose set SetOf(addr) exists
AccessData(c, a) ==
  LET t   == SetOf(a)
      tag == TagOf(a)
      sc  == Scan(c[t])
      i   == FindLine(c[t], tag)
      k   == FindEmpty(c[t])
  IN IF i # 0 - 1 THEN OnHit(c, t, i, sc.max)
     ELSE IF k # 0 - 1 THEN OnCold(c, t, k, tag, sc.max)
     ELSE OnEvict(c, t, sc.minIndex, tag, sc.max)

(* ----------------------- reference LRU model --------------------------- *)

\* per set an ordered list of at most E tags, most recently used first,
\* and three counters; the address is split by division and remainder
RefSet(a) == (a \div Pow2(b)) % Pow2(s)
RefTag(a) == a \div Pow2(s + b)

Remove(seq, x) == SelectSeq(seq, LAMBDA y : y # x)
InSeq(seq, x) == \E n \in 1 .. Len(seq) : seq[n] = x

RefInit ==
  [order |-> [i \in 0 .. Pow2Int(s) - 1 |-> << >>],
   hit |-> 0, miss |-> 0, evict |-> 0]

RefAccess(r, a) ==
  LET t    == RefSet(a)
      tag  == RefTag(a)
      old  == r.order[t]
      full == << tag >> \o old
  IN IF InSeq(old, tag)
     THEN [r EXCEPT !.order[t] = << tag >> \o Remove(old, tag),
                    !.hit = @ + 1]
     ELSE IF Len(full) > E
     THEN [r EXCEPT !.order[t] = SubSeq(full, 1, E),
                    !.miss = @ + 1, !.evict = @ + 1]
     ELSE [r EXCEPT !.order[t] = full, !.miss = @ + 1]

(* ------------------------------- main --------------------------------- *)

EmptyLine == [valid |-> FALSE, tag |-> 0, counter |-> 0]

Init ==
  /\ pc = "main"
  /\ s \in ArgValues /\ E \in ArgValues /\ b \in ArgValues
  /\ trace_file \in BOOLEAN
  /\ S = 0
  /\ cache = << >>
  /\ initI = 0
  /\ allocFailed = FALSE
  /\ heapCorrupt = FALSE
  /\ hit_count = 0 /\ miss_count = 0 /\ eviction_count = 0
  /\ targSet = 0 /\ targTag = 0 /\ minIndex = 0 - 1
  /\ inits = 0 /\ frees = 0
  /\ prefixLen \in PrefixLens
  /\ calls = 0 /\ singles = 0 /\ modifies = 0
  /\ addr = 0
  /\ matched = 0
  /\ ref = RefInit

\* if (s == 0 || E == 0 || b == 0 || trace_file == NULL) { printUsage; exit }
ArgsRejected == s = 0 \/ E = 0 \/ b = 0 \/ ~ trace_file

CheckArgs ==
  /\ pc = "main"
  /\ pc' = IF ArgsRejected THEN "usage" ELSE "initCache"
  /\ UNCHANGED << s, E, b, trace_file, S, cache, initI, allocFailed, heapCorrupt,
                  hit_count, miss_count, eviction_count, targSet, targTag, minIndex,
                  prefixLen, calls, singles, modifies, addr, matched, ref,
           inits, frees >>

(* ----------------------------- initCache ------------------------------ *)

\* S = pow(2, s); cache = malloc(S * sizeof(cache_set_t));
\* malloc is not checked: with cache == NULL the store cache[0] = ... of the
\* first iteration goes through a null pointer and traps
InitCacheAlloc ==
  /\ pc = "initCache"
  /\ S' = Pow2Int(s)
  /\ initI' = 0
  /\ cache' = << >>
  /\ \E ok \in BOOLEAN :
       /\ allocFailed' = ~ ok
       /\ IF S' <= 0 THEN pc' = "replayTrace"
          ELSE IF ok THEN pc' = "initSets"
          ELSE pc' = "crashed"
  /\ inits' = inits + 1
  /\ UNCHANGED << s, E, b, trace_file, heapCorrupt,
                  hit_count, miss_count, eviction_count, targSet, targTag, minIndex,
                  prefixLen, calls, singles, modifies, addr, matched, ref,
                  frees >>

\* one iteration of the loop over the sets:
\* cache[i] = malloc(E * sizeof(cache_line_t)); then the E lines are set to
\* valid '0', tag 0, counter 0.  A negative E makes the size wrap, so that
\* malloc fails and the inner loop does not run.  With cache[i] == NULL and
\* E >= 1 the store to cache[i][0] goes through a null pointer and traps.
InitSet ==
  /\ pc = "initSets"
  /\ initI < S
  /\ \E ok \in (IF E < 0 THEN {FALSE} ELSE BOOLEAN) :
       /\ allocFailed' = (allocFailed \/ ~ ok)
       /\ LET next == IF initI + 1 < S THEN "initSets" ELSE "replayTrace"
          IN /\ pc' = IF ok \/ E < 0 THEN next ELSE "crashed"
             /\ cache' = IF ok \/ E < 0
                          THEN [i \in 0 .. initI |->
                                  IF i = initI THEN [j \in 0 .. E - 1 |-> EmptyLine]
                                  ELSE cache[i]]
                          ELSE cache
  /\ initI' = initI + 1
  /\ UNCHANGED << s, E, b, trace_file, S, heapCorrupt,
                  hit_count, miss_count, eviction_count, targSet, targTag, minIndex,
                  prefixLen, calls, singles, modifies, addr, matched, ref,
           inits, frees >>

(* ---------------------------- replayTrace ----------------------------- *)

\* trace_fp = fopen(trace_fn, "r"); if (!trace_fp) exit(1);
OpenTrace ==
  /\ pc = "replayTrace"
  /\ pc' \in {"reading", "exit"}
  /\ UNCHANGED << s, E, b, trace_file, S, cache, initI, allocFailed, heapCorrupt,
                  hit_count, miss_count, eviction_count, targSet, targTag, minIndex,
                  prefixLen, calls, singles, modifies, addr, matched, ref,
           inits, frees >>

\* One call accessData(a), after which the process is at nextpc.
\*  - s < 0 or b < 0: the shifts by b and s + b and the read of cache[targSet]
\*    (S = 0) are undefined; the call traps or the rest of the run is
\*    whatever the build makes of it ("undefined").
\*  - a store through cache[targSet][-1] (no line was below the start value
\*    of the minimum scan, or E < 0) is outside the array of the set: it
\*    traps, or it lands in the allocator's bookkeeping (sets of an even
\*    number of lines under glibc), or both stores land in the last line of
\*    the preceding set (sets allocated back to back), or the store of the
\*    tag lands in the counter of that line (sets of an odd number of lines
\*    under glibc: 24-byte lines behind an 8-byte chunk header).
Access(a, nextpc) ==
  /\ calls' = calls + 1
  /\ addr' = a
  /\ matched' = IF /\ matched >= 0 /\ matched < Len(Scenario1)
                    /\ prefixLen = 0 /\ Scenario1[matched + 1] = a
                 THEN matched + 1 ELSE 0 - 1
  /\ ref' = IF ValidGeometry THEN RefAccess(ref, a) ELSE ref
  /\ IF s < 0 \/ b < 0
     THEN /\ pc' \in {"undefined", "crashed"}
          /\ UNCHANGED << cache, hit_count, miss_count, eviction_count,
                          targSet, targTag, minIndex, heapCorrupt >>
     ELSE \E r \in {AccessData(cache, a)}, t \in {SetOf(a)} :
             /\ targSet' = t
             /\ targTag' = TagOf(a)
             /\ minIndex' = Scan(cache[t]).minIndex
             /\ hit_count' = hit_count + r.hit
             /\ miss_count' = miss_count + r.miss
             /\ eviction_count' = eviction_count + r.evict
             /\ IF ~ r.wild
                THEN /\ cache' = r.cache
                     /\ pc' = nextpc
                     /\ UNCHANGED heapCorrupt
                ELSE \/ /\ pc' = "crashed"
                        /\ UNCHANGED << cache, heapCorrupt >>
                     \/ /\ pc' = nextpc
                        /\ heapCorrupt' = TRUE
                        /\ UNCHANGED cache
                     \/ /\ t >= 1 /\ E >= 1
                        /\ pc' = nextpc
                        /\ heapCorrupt' = TRUE
                        /\ cache' = [cache EXCEPT
                                       ![t - 1][E - 1].tag = TagOf(a),
                                       ![t - 1][E - 1].counter = Scan(cache[t]).max + 1]
                     \/ /\ t >= 1 /\ E >= 1 /\ E % 2 = 1
                        /\ pc' = nextpc
                        /\ heapCorrupt' = TRUE
                        /\ cache' = [cache EXCEPT ![t - 1][E - 1].counter = TagOf(a)]

\* a line of the repeated prefix: "L 0"
PrefixLoad ==
  /\ pc = "reading"
  /\ calls < prefixLen
  /\ Access(PrefixAddr, "reading")
  /\ singles' = singles + 1
  /\ UNCHANGED << s, E, b, trace_file, S, initI, allocFailed,
                  prefixLen, modifies, inits, frees >>

\* if (buf[1] == 'L') accessData(addr);
Load(a) ==
  /\ pc = "reading"
  /\ calls >= prefixLen
  /\ calls - prefixLen < MaxCalls
  /\ Access(a, "reading")
  /\ singles' = singles + 1
  /\ UNCHANGED << s, E, b, trace_file, S, initI, allocFailed,
                  prefixLen, modifies, inits, frees >>

\* else if (buf[1] == 'S') accessData(addr);
Store(a) ==
  /\ pc = "reading"
  /\ calls >= prefixLen
  /\ calls - prefixLen < MaxCalls
  /\ Access(a, "reading")
  /\ singles' = singles + 1
  /\ UNCHANGED << s, E, b, trace_file, S, initI, allocFailed,
                  prefixLen, modifies, inits, frees >>

\* else if (buf[1] == 'M') { accessData(addr); accessData(addr); }
\* the first of the two calls
ModifyLoad(a) ==
  /\ pc = "reading"
  /\ calls >= prefixLen
  /\ calls - prefixLen + 2 <= MaxCalls
  /\ Access(a, "modify")
  /\ modifies' = modifies + 1
  /\ UNCHANGED << s, E, b, trace_file, S, initI, allocFailed,
                  prefixLen, singles, inits, frees >>

\* the second of the two calls, with the same addr
ModifyStore ==
  /\ pc = "modify"
  /\ Access(addr, "reading")
  /\ UNCHANGED << s, E, b, trace_file, S, initI, allocFailed,
                  prefixLen, singles, modifies, inits, frees >>

\* fgets returns NULL: fclose and return to main
EndOfTraceSkipsFree ==
  /\ pc = "reading"
  /\ calls >= prefixLen
  /\ pc' = "done"
  /\ UNCHANGED << s, E, b, trace_file, S, cache, initI, allocFailed, heapCorrupt,
                  hit_count, miss_count, eviction_count, targSet, targTag, minIndex,
                  prefixLen, calls, singles, modifies, addr, matched, ref,
                  inits, frees >>
EndOfTrace ==
  /\ pc = "reading"
  /\ calls >= prefixLen
  /\ pc' = "freeCache"
  /\ UNCHANGED << s, E, b, trace_file, S, cache, initI, allocFailed, heapCorrupt,
                  hit_count, miss_count, eviction_count, targSet, targTag, minIndex,
                  prefixLen, calls, singles, modifies, addr, matched, ref,
           inits, frees >>

(* ----------------------------- freeCache ------------------------------ *)

\* free of every set and of the cache, then printSummary; free may abort
\* when a store outside a set has damaged the allocator's bookkeeping
FreeCache ==
  /\ pc = "freeCache"
  /\ IF heapCorrupt THEN pc' \in {"done", "crashed"} ELSE pc' = "done"
  /\ cache' = << >>
  /\ frees' = frees + 1
  /\ UNCHANGED << s, E, b, trace_file, S, initI, allocFailed, heapCorrupt,
                  hit_count, miss_count, eviction_count, targSet, targTag, minIndex,
                  prefixLen, calls, singles, modifies, addr, matched, ref,
                  inits >>

Next ==
  \/ CheckArgs
  \/ InitCacheAlloc
  \/ InitSet
  \/ OpenTrace
  \/ PrefixLoad
  \/ \E a \in Addresses : Load(a)
  \/ \E a \in Addresses : Store(a)
  \/ \E a \in Addresses : ModifyLoad(a)
  \/ ModifyStore
  \/ EndOfTrace
  \/ FreeCache

Spec == Init /\ [][Next]_vars

(* ------------------------ vocabulary of the claims -------------------- *)

\* the step is one accessData call
IsAccess == calls' = calls + 1

\* the process is between trace lines or between the two calls of an M line
Replaying == pc \in {"reading", "modify"}

AllValid(set) == \A j \in DOMAIN set : set[j].valid
ResidentTags(set) == {set[j].tag : j \in {k \in DOMAIN set : set[k].valid}}
SeqTags(seq) == {seq[n] : n \in 1 .. Len(seq)}

\* the block of the address a is held by a valid line of the cache c
Resident(c, a) ==
  \E j \in DOMAIN c[SetOf(a)] : c[SetOf(a)][j].valid /\ c[SetOf(a)][j].tag = TagOf(a)

\* (address >> b) & (2^s - 1)
ClaimSet(a) == BitAnd(ShiftRight(a, b), Pow2(s) - 1)

(* ------------------------------- C1 ----------------------------------- *)

\* C1: replacement is LRU: while the trace is replayed, in every set the
\* tags of the valid lines are the tags of the reference list of that set,
\* and the three counters equal the counters of the reference model.
C1_LRURefinement ==
  (ValidGeometry /\ Replaying) =>
     /\ \A i \in DOMAIN cache : ResidentTags(cache[i]) = SeqTags(ref.order[i])
     /\ hit_count = ref.hit
     /\ miss_count = ref.miss
     /\ eviction_count = ref.evict

(* ------------------------------- C2 ----------------------------------- *)

\* C2: hit_count + miss_count is the number of accessData calls made so far,
\* an L or S line stands for one call and an M line for two, and every call
\* adds exactly 1 to exactly one of hit_count and miss_count.
C2_CallsAreCounted ==
  /\ [](ValidGeometry =>
          /\ hit_count + miss_count = calls
          /\ (pc \in {"reading", "freeCache", "done"}
                => calls = singles + 2 * modifies)
          /\ (pc = "modify" => calls = singles + 2 * modifies - 1))
  /\ [][(ValidGeometry /\ IsAccess) =>
          \/ hit_count' = hit_count + 1 /\ miss_count' = miss_count
          \/ hit_count' = hit_count /\ miss_count' = miss_count + 1]_vars

C2_Witness ==
  /\ ValidGeometry /\ pc = "reading"
  /\ singles >= 1 /\ modifies >= 1
  /\ hit_count >= 2 /\ miss_count >= 2

(* ------------------------------- C3 ----------------------------------- *)

\* C3: eviction_count never exceeds miss_count; a step that changes
\* eviction_count adds 1 to it, adds 1 to miss_count and leaves hit_count.
C3_EvictionsAreMisses ==
  /\ [](ValidGeometry => eviction_count <= miss_count)
  /\ [][(ValidGeometry /\ eviction_count' # eviction_count) =>
          /\ eviction_count' = eviction_count + 1
          /\ miss_count' = miss_count + 1
          /\ hit_count' = hit_count]_vars

C3_Witness ==
  /\ ValidGeometry /\ pc = "reading"
  /\ eviction_count >= 1 /\ eviction_count < miss_count /\ hit_count >= 1

(* ------------------------------- C4 ----------------------------------- *)

\* C4: the second call of an M line is a hit: it adds 1 to hit_count and
\* leaves miss_count and eviction_count.
C4_ModifyStoreHits ==
  [][(ValidGeometry /\ pc = "modify") =>
       /\ hit_count' = hit_count + 1
       /\ miss_count' = miss_count
       /\ eviction_count' = eviction_count]_vars

(* ------------------------------- C5 ----------------------------------- *)

\* C5 as stated: with s = 1, E = 1, b = 1 the calls at 0, 0, 4 end with
\* 1 hit, 2 misses and no eviction, the address 4 being in another set
\* than the address 0.
C5_Scenario1AsStated ==
  (s = 1 /\ E = 1 /\ b = 1 /\ matched = 3) =>
     /\ hit_count = 1 /\ miss_count = 2 /\ eviction_count = 0
     /\ SetOf(4) # SetOf(0)

\* C5 amended: with s = 1, E = 1, b = 1 the calls at 0, 0, 4 are a cold
\* miss, a hit and a miss with an eviction: the address 4 is in the set 0
\* of the address 0 with the tag 1; they end with 1 hit, 2 misses and 1
\* eviction.
C5_Scenario1 ==
  (s = 1 /\ E = 1 /\ b = 1) =>
     /\ (matched = 1 =>
           hit_count = 0 /\ miss_count = 1 /\ eviction_count = 0)
     /\ (matched = 2 =>
           hit_count = 1 /\ miss_count = 1 /\ eviction_count = 0)
     /\ (matched = 3 =>
           /\ hit_count = 1 /\ miss_count = 2 /\ eviction_count = 1
           /\ targSet = 0 /\ targTag = 1)

C5_Witness == s = 1 /\ E = 1 /\ b = 1 /\ matched = 3 /\ pc = "done"

(* ------------------------------- C6 ----------------------------------- *)

\* C6: a miss in a set whose lines are all valid adds 1 to eviction_count,
\* a miss in a set with a line that is not valid leaves eviction_count, and
\* a set whose lines are all valid stays so while the trace is replayed.
C6_FullSetMissEvicts ==
  [][(ValidGeometry /\ IsAccess) =>
       /\ (miss_count' = miss_count + 1 =>
             IF AllValid(cache[SetOf(addr')])
             THEN eviction_count' = eviction_count + 1
             ELSE eviction_count' = eviction_count)
       /\ \A i \in DOMAIN cache :
             AllValid(cache[i]) => AllValid(cache'[i])]_vars

C6_Witness ==
  /\ ValidGeometry /\ E = 2 /\ Replaying
  /\ eviction_count >= 1
  /\ \E i \in DOMAIN cache : ~ AllValid(cache[i]) /\ ResidentTags(cache[i]) # {}

(* ------------------------------- C7 ----------------------------------- *)

\* C7: a call at an address whose block is resident adds 1 to hit_count,
\* leaves miss_count and eviction_count and the valid flag and tag of
\* every line, and leaves the block resident.
C7_HitsChangeRecencyOnly ==
  [][(ValidGeometry /\ IsAccess /\ Resident(cache, addr')) =>
       /\ hit_count' = hit_count + 1
       /\ miss_count' = miss_count
       /\ eviction_count' = eviction_count
       /\ DOMAIN cache' = DOMAIN cache
       /\ \A i \in DOMAIN cache : \A j \in DOMAIN cache[i] :
             /\ cache'[i][j].valid = cache[i][j].valid
             /\ cache'[i][j].tag = cache[i][j].tag
       /\ Resident(cache', addr')]_vars

C7_Witness ==
  /\ ValidGeometry /\ Replaying /\ prefixLen = 0
  /\ miss_count = 1 /\ hit_count >= 3

(* ------------------------------- C8 ----------------------------------- *)

\* C8: the set index of a call is (address >> b) & (2^s - 1), its tag is
\* address >> (s + b), and the set index is one of 0 .. S-1.
C8_AddressDecomposition ==
  (ValidGeometry /\ calls >= 1) =>
     /\ targSet = ClaimSet(addr)
     /\ targTag = addr \div Pow2(s + b)
     /\ targSet \in 0 .. S - 1
     /\ targSet \in DOMAIN cache \/ pc \in {"done", "crashed"}

C8_Witness ==
  /\ ValidGeometry /\ calls >= 1
  /\ targSet >= 1 /\ targTag >= 1 /\ addr % Pow2(b) # 0

(* ------------------------------- C9 ----------------------------------- *)

\* C9: initCache and accessData run only when s, E and b are all positive;
\* otherwise the run ends with the usage message, no call is made and the
\* counters are 0.
C9_CoreOnlyWithPositiveGeometry ==
  ~ ValidGeometry =>
     /\ pc \in {"main", "usage"}
     /\ calls = 0
     /\ hit_count = 0 /\ miss_count = 0 /\ eviction_count = 0

(* ------------------------------- C10 ---------------------------------- *)

\* C10: when a malloc of initCache has failed, the run has ended in an
\* error, no line of the cache has been written and no call has been made.
C10_AllocationFailureIsFatal ==
  (ValidGeometry /\ allocFailed) =>
     /\ pc = "crashed"
     /\ cache = << >>
     /\ calls = 0

(* ------------------------------- C11 ---------------------------------- *)

\* the largest counter of a set
MaxCounter(set) ==
  CHOOSE m \in {set[j].counter : j \in DOMAIN set} :
     \A j \in DOMAIN set : set[j].counter <= m

\* the lines of the cache, as pairs of a set index and a line index
Lines(c) == {<< i, j >> \in (DOMAIN c) \X (0 .. E - 1) : j \in DOMAIN c[i]}

\* C11: every counter of every line is below the start value 5000 of the
\* minimum scan, and the minIndex found by a call is one of 0 .. E-1.
C11_SentinelAboveRecency ==
  ValidGeometry =>
     /\ \A ij \in Lines(cache) : cache[ij[1]][ij[2]].counter < MinSentinel
     /\ (calls >= 1 => minIndex \in 0 .. E - 1)

(* ------------------------------- C12 ---------------------------------- *)

\* C12: a call that returns changes exactly one line, a line of the target
\* set: a hit changes its counter only, a cold miss makes it valid with the
\* tag of the address, an eviction stores the tag and leaves it valid.
C12_ExactlyOneLineChanges ==
  [][(ValidGeometry /\ IsAccess /\ pc' # "crashed") =>
       LET t == SetOf(addr')
           changed == {ij \in Lines(cache) :
                         cache'[ij[1]][ij[2]] # cache[ij[1]][ij[2]]}
       IN /\ Cardinality(changed) = 1
          /\ \A ij \in changed :
               LET old == cache[ij[1]][ij[2]]
                   new == cache'[ij[1]][ij[2]]
               IN /\ ij[1] = t
                  /\ new.counter # old.counter
                  /\ (hit_count' # hit_count =>
                        new.valid = old.valid /\ new.tag = old.tag)
                  /\ (miss_count' # miss_count /\ eviction_count' = eviction_count =>
                        ~ old.valid /\ new.valid /\ new.tag = TagOf(addr'))
                  /\ (eviction_count' # eviction_count =>
                        old.valid /\ new.valid /\ new.tag = TagOf(addr'))]_vars

(* ------------------------------- C13 ---------------------------------- *)

\* C13: a call that returns lowers no counter, and it leaves the block of
\* the address in a line whose counter is the former maximum of the set
\* plus 1 and is above the counter of every other line of the set.
C13_RecencyIsAClock ==
  [][(ValidGeometry /\ IsAccess /\ pc' # "crashed") =>
       LET t == SetOf(addr')
       IN /\ \A ij \in Lines(cache) :
               cache'[ij[1]][ij[2]].counter >= cache[ij[1]][ij[2]].counter
          /\ \E j \in DOMAIN cache[t] :
               /\ cache'[t][j].valid
               /\ cache'[t][j].tag = TagOf(addr')
               /\ cache'[t][j].counter = MaxCounter(cache[t]) + 1
               /\ \A k \in DOMAIN cache[t] \ {j} :
                     cache'[t][k].counter < cache'[t][j].counter]_vars

(* ------------------------------- C14 ---------------------------------- *)

\* the smallest counter of a set
MinCounter(set) ==
  CHOOSE m \in {set[j].counter : j \in DOMAIN set} :
     \A j \in DOMAIN set : m <= set[j].counter

\* C14: when several lines of the target set of a call share the smallest
\* counter, the minIndex found by the call is the lowest index among them.
C14_TieBreaksToLowestIndex ==
  [][(ValidGeometry /\ IsAccess) =>
       LET set  == cache[targSet']
           tied == {j \in DOMAIN set : set[j].counter = MinCounter(set)}
       IN Cardinality(tied) >= 2 =>
            /\ minIndex' \in tied
            /\ \A j \in tied : minIndex' <= j]_vars

\* the first call of a run on two-line sets: both counters were 0
C14_Witness ==
  /\ ValidGeometry /\ E = 2 /\ prefixLen = 0
  /\ calls = 1 /\ miss_count = 1 /\ minIndex = 0

(* ------------------------------- C15 ---------------------------------- *)

\* the address with the low b bits cleared
BlockBase(a) == a - (a % Pow2(b))

\* C15: while the trace is replayed, a call at an address and a call at the
\* first address of its block have the same set index and tag and leave
\* the same cache and the same additions to the three counters.
C15_OffsetIsIgnored ==
  (ValidGeometry /\ Replaying) =>
     \A base \in {BlockBase(a) : a \in Addresses} :
        \A atBase \in {AccessData(cache, base)} :
           \A a \in {x \in Addresses : x # base /\ BlockBase(x) = base} :
              /\ SetOf(a) = SetOf(base)
              /\ TagOf(a) = TagOf(base)
              /\ AccessData(cache, a) = atBase

\* after the prefix at PrefixAddr, a call at another address of the same
\* block has been made, and it was a hit
C15_Witness ==
  /\ ValidGeometry /\ pc = "reading"
  /\ prefixLen > 0 /\ calls = prefixLen + 1
  /\ addr # PrefixAddr /\ BlockBase(addr) = BlockBase(PrefixAddr)
  /\ hit_count = calls - 1

(* ------------------------------- C16 ---------------------------------- *)

\* the run passed the test of the arguments in main
PassedArgs == pc \notin {"main", "usage"}

\* initCache ran once before any call, freeCache ran at most once, and it
\* ran only after the last call
LifecycleOrder ==
  /\ PassedArgs => inits <= 1 /\ frees <= 1
  /\ calls >= 1 => inits = 1
  /\ frees >= 1 => inits = 1 /\ pc \in {"done", "crashed"}

\* C16 as stated: a run that passed the test of the arguments and has ended
\* without a trap has run initCache once and freeCache once, in this order
\* around the calls.
C16_LifecycleAsStated ==
  /\ LifecycleOrder
  /\ (ValidGeometry /\ pc \in {"done", "exit"}) => inits = 1 /\ frees = 1

\* C16 amended: initCache runs once before the first call, freeCache runs at
\* most once and after the last call, no call is made after freeCache, a
\* run that returns from main has run freeCache once, and a run that exits
\* because the trace cannot be opened has made no call and never runs
\* freeCache.
C16_Lifecycle ==
  /\ [](/\ LifecycleOrder
        /\ (pc = "done" => inits = 1 /\ frees = 1)
        /\ (pc = "exit" => inits = 1 /\ frees = 0 /\ calls = 0))
  /\ [][IsAccess => inits = 1 /\ frees = 0 /\ frees' = 0]_vars

C16_Witness ==
  /\ ValidGeometry /\ pc = "done"
  /\ calls >= 2 /\ inits = 1 /\ frees = 1

(* ------------------------------- C17 ---------------------------------- *)

\* C17: in every set the valid lines have counters that are at least 1 and
\* differ from line to line, and a line that is not valid has the counter 0
\* and the tag 0 that initCache gave it; a set whose lines are all valid has
\* therefore one line of smallest counter.
C17_DistinctRecency ==
  ValidGeometry =>
     \A i \in DOMAIN cache :
        /\ \A j \in DOMAIN cache[i] :
              IF cache[i][j].valid
              THEN cache[i][j].counter >= 1
              ELSE cache[i][j].counter = 0 /\ cache[i][j].tag = 0
        /\ \A j, k \in DOMAIN cache[i] :
              (j # k /\ cache[i][j].valid /\ cache[i][k].valid)
                 => cache[i][j].counter # cache[i][k].counter

(* ------------------------------- C18 ---------------------------------- *)

\* C18: no set has two valid lines with the same tag.
C18_BlockResidentOnce ==
  ValidGeometry =>
     \A i \in DOMAIN cache : \A j, k \in DOMAIN cache[i] :
        (j # k /\ cache[i][j].valid /\ cache[i][k].valid)
           => cache[i][j].tag # cache[i][k].tag

(* ------------------------------- C19 ---------------------------------- *)

ValidLines(c) == {ij \in Lines(c) : c[ij[1]][ij[2]].valid}

\* C19: a valid line stays valid as long as the cache exists, and between
\* initCache and freeCache miss_count - eviction_count is the number of
\* valid lines, which is at most S * E.
C19_MissesMinusEvictions ==
  /\ []((ValidGeometry /\ pc \in {"replayTrace", "reading", "modify", "freeCache"}) =>
          /\ miss_count - eviction_count = Cardinality(ValidLines(cache))
          /\ Cardinality(ValidLines(cache)) <= S * E)
  /\ [][(ValidGeometry /\ pc' \in {"reading", "modify", "freeCache"}) =>
          ValidLines(cache) \subseteq ValidLines(cache')]_vars

C19_Witness ==
  /\ ValidGeometry /\ Replaying
  /\ eviction_count >= 1
  /\ miss_count - eviction_count >= 2
  /\ Cardinality(ValidLines(cache)) < S * E

(* ------------------------------- C20 ---------------------------------- *)

\* C20: in every set no line that is not valid has a lower index than a
\* valid line, and a cold miss makes the lowest line valid that was not.
C20_ValidLinesAreAPrefix ==
  /\ [](ValidGeometry =>
          \A i \in DOMAIN cache : \A j, k \in DOMAIN cache[i] :
             (j < k /\ cache[i][k].valid) => cache[i][j].valid)
  /\ [][(ValidGeometry /\ IsAccess) =>
          \A ij \in ValidLines(cache') \ ValidLines(cache) :
             /\ ij[1] = SetOf(addr')
             /\ \A k \in DOMAIN cache[ij[1]] :
                   ~ cache[ij[1]][k].valid => ij[2] <= k]_vars

C20_Witness ==
  /\ ValidGeometry /\ E = 2 /\ Replaying
  /\ \E i \in DOMAIN cache : cache[i][0].valid /\ ~ cache[i][1].valid
  /\ \E i \in DOMAIN cache : cache[i][0].valid /\ cache[i][1].valid

====
